---- MODULE Spec2Model ----
(***************************************************************************)
(* A model of src/util.rs of libpnet: the MacAddr value type with its      *)
(* Show (format) and FromStr (parse) implementations, and the POSIX        *)
(* get_network_interfaces_impl with its nested merge function.             *)
(*                                                                         *)
(* Option<T> is modelled as a sequence of length 0 (None) or 1 (Some(x)).  *)
(* Strings that are parsed or formatted are sequences of one-character     *)
(* strings; interface names and IP addresses are opaque strings.           *)
(***************************************************************************)
EXTENDS Integers, Sequences, FiniteSets, TLC

VARIABLES
    \* ---- get_network_interfaces_impl (not windows) ----
    pc,         \* position in the function: "start", "loop", "resolve", "done"
    rc,         \* return code of libc::getifaddrs (0 = success), once called
    addrs,      \* the OS record list handed out by getifaddrs
    addr,       \* cursor into addrs (1-based); Len(addrs)+1 is the null pointer
    ifaces,     \* the Vec<NetworkInterface> being built
    next_iface, \* position of the iter_mut() of the index resolution loop
    released,   \* number of libc::freeifaddrs calls made
    stale_reads,\* number of raw records read after freeifaddrs
    queries,    \* the libc::if_nametoindex calls made: <<name, answer>> in order
    ret,        \* Option: the Vec returned to the caller
    \* ---- MacAddr Show / FromStr ----
    mpc,        \* "text": a text to parse, "mac": a MacAddr to format,
                \* "shown": formatted, "parsed": parse finished, "idle"
    mac_in,     \* Option<MacAddr>: the value handed to fmt
    text,       \* the text handed to from_str
    parsed      \* Option<MacAddr>: what from_str returned

enum_vars == <<pc, rc, addrs, addr, ifaces, next_iface, released, stale_reads, queries, ret>>
mac_vars == <<mpc, mac_in, text, parsed>>
vars == <<pc, rc, addrs, addr, ifaces, next_iface, released, stale_reads, queries, ret,
          mpc, mac_in, text, parsed>>

None == <<>>
Some(x) == <<x>>

(***************************************************************************)
(* Bounds of the model.                                                    *)
(***************************************************************************)
\* longest OS record list explored
MaxRaw == 3
\* largest number of ':'-separated groups in a parsed text
MaxGroups == 7

(***************************************************************************)
(* Input domains.                                                          *)
(***************************************************************************)
Names == {"lo", "eth0"}

Mac1 == <<0, 1, 2, 3, 4, 5>>
Mac2 == <<170, 187, 204, 221, 238, 255>>
NoMac == <<0, 0, 0, 0, 0, 0>>

\* libc::sockaddr as the decoder sees it: a null pointer, or a family tag
\* with the payload of that family.
SockAddrs ==
    { [is_null |-> TRUE,  sa_family |-> "",          sll_addr |-> NoMac, ip |-> ""],
      [is_null |-> FALSE, sa_family |-> "AF_PACKET", sll_addr |-> Mac1,  ip |-> ""],
      [is_null |-> FALSE, sa_family |-> "AF_PACKET", sll_addr |-> Mac2,  ip |-> ""],
      [is_null |-> FALSE, sa_family |-> "AF_INET",   sll_addr |-> NoMac, ip |-> "10.0.0.1"],
      [is_null |-> FALSE, sa_family |-> "AF_INET6",  sll_addr |-> NoMac, ip |-> "fe80::1"],
      [is_null |-> FALSE, sa_family |-> "AF_UNIX",   sll_addr |-> NoMac, ip |-> ""] }

\* ifa_flags values: IFF_UP, IFF_LOOPBACK
FlagVals == {1, 8}

\* libc::ifaddrs nodes; only the loopback interface carries IFF_LOOPBACK
RawRecords ==
    { r \in [ifa_name : Names, ifa_addr : SockAddrs, ifa_flags : FlagVals] :
        r.ifa_flags = 8 => r.ifa_name = "lo" }

\* the sequences over S of length at most n
SeqsUpTo(S, n) == UNION {[1..k -> S] : k \in 0..n}

\* what libc::if_nametoindex(name) may answer: the index the OS has for the
\* name, or 0 when the OS knows no such interface any more
if_nametoindex(name) == {0, IF name = "lo" THEN 1 ELSE 2}

(***************************************************************************)
(* sockaddr_to_network_addr (linux) and the record built per raw record.   *)
(***************************************************************************)
\* internal::sockaddr_to_addr: Ok(ip) for an IPv4/IPv6 socket address, Err
\* for any other family.  An Option stands for the Result.
sockaddr_to_addr(sa) ==
    IF sa.sa_family \in {"AF_INET", "AF_INET6"} THEN Some(sa.ip) ELSE None

sockaddr_to_network_addr(sa) ==
    IF sa.is_null THEN [mac |-> None, ip |-> None]
    ELSE IF sa.sa_family = "AF_PACKET"
         THEN [mac |-> Some(sa.sll_addr), ip |-> None]
         ELSE LET a == sockaddr_to_addr(sa)
              IN  IF a # None THEN [mac |-> None, ip |-> Some(a[1])]
                  ELSE [mac |-> None, ip |-> None]

\* let ni = NetworkInterface { name, index: 0, mac, ips: ip.map(..), flags }
NewInterface(rec) ==
    LET d == sockaddr_to_network_addr(rec.ifa_addr)
    IN  [name  |-> rec.ifa_name,
         index |-> 0,
         mac   |-> d.mac,
         ips   |-> IF d.ip = None THEN None ELSE Some(<<d.ip[1]>>),
         flags |-> rec.ifa_flags]

\* bitwise OR of two u32 values
RECURSIVE BitOr(_, _)
BitOr(a, b) ==
    IF a = 0 THEN b
    ELSE IF b = 0 THEN a
    ELSE (IF a % 2 = 1 \/ b % 2 = 1 THEN 1 ELSE 0) + 2 * BitOr(a \div 2, b \div 2)

\* merge with the incoming IPs put in front of the existing ones
mergePrepend(old, new) ==
    [old EXCEPT
        !.mac   = IF new.mac = None THEN old.mac ELSE new.mac,
        !.ips   = IF old.ips # None /\ new.ips # None
                  THEN Some(new.ips[1] \o old.ips[1])
                  ELSE old.ips,
        !.flags = BitOr(old.flags, new.flags)]

\* merge with the hardware address always taken from the incoming record
mergeTakeMac(old, new) ==
    [old EXCEPT
        !.mac   = new.mac,
        !.ips   = IF old.ips # None /\ new.ips # None
                  THEN Some(old.ips[1] \o new.ips[1])
                  ELSE old.ips,
        !.flags = BitOr(old.flags, new.flags)]

\* merge with the flags added instead of OR-ed
mergeAddFlags(old, new) ==
    [old EXCEPT
        !.mac   = IF new.mac = None THEN old.mac ELSE new.mac,
        !.ips   = IF old.ips # None /\ new.ips # None
                  THEN Some(old.ips[1] \o new.ips[1])
                  ELSE old.ips,
        !.flags = old.flags + new.flags]

\* merge that adopts the incoming IP list when the aggregate has none
mergeAdoptIps(old, new) ==
    [old EXCEPT
        !.mac   = IF new.mac = None THEN old.mac ELSE new.mac,
        !.ips   = IF old.ips # None /\ new.ips # None
                  THEN Some(old.ips[1] \o new.ips[1])
                  ELSE IF old.ips = None THEN new.ips ELSE old.ips,
        !.flags = BitOr(old.flags, new.flags)]

merge(old, new) ==
    [old EXCEPT
        !.mac   = IF new.mac = None THEN old.mac ELSE new.mac,
        !.ips   = IF old.ips # None /\ new.ips # None
                  THEN Some(old.ips[1] \o new.ips[1])
                  ELSE old.ips,
        !.flags = BitOr(old.flags, new.flags)]

\* `found` never set
FoundNever(list, name) == FALSE

\* the value of `found` after the for loop over ifaces.iter_mut()
Found(list, name) == \E i \in DOMAIN list : name = list[i].name

\* the for loop over ifaces.iter_mut(): every entry of that name is merged
MergeAll(list, ni) ==
    [i \in DOMAIN list |-> IF ni.name = list[i].name THEN merge(list[i], ni) ELSE list[i]]

\* one iteration of the while loop: the aggregate list after one raw record
Aggregate(list, rec) ==
    LET ni == NewInterface(rec)
    IN  IF Found(list, ni.name) THEN MergeAll(list, ni) ELSE Append(list, ni)

\* the return code of getifaddrs not looked at
GetifaddrsUnchecked(code) == FALSE

\* if libc::getifaddrs(&mut addrs) != 0 { return ifaces; }
GetifaddrsFailed(code) == code # 0

\* while addr.is_not_null()
is_not_null(cursor, list) == cursor <= Len(list)

\* the list never handed back
freeifaddrsMissing(n) == n

\* libc::freeifaddrs(addrs), counted
freeifaddrs(n) == n + 1

\* the answer of if_nametoindex dropped
SetIndexDropped(iface, answer) == iface

\* iface.index = iface.name.with_c_str(|name| libc::if_nametoindex(name))
SetIndex(iface, answer) == [iface EXCEPT !.index = answer]

(***************************************************************************)
(* get_network_interfaces_impl, one action per step.                       *)
(***************************************************************************)
InitEnum ==
    /\ pc = "start"
    /\ rc = 0
    /\ addrs = <<>>
    /\ addr = 0
    /\ ifaces = <<>>
    /\ next_iface = 0
    /\ released = 0
    /\ stale_reads = 0
    /\ queries = <<>>
    /\ ret = None

\* let mut addrs = mem::uninitialized(); if libc::getifaddrs(&mut addrs) != 0
\* { return ifaces; }  let mut addr = addrs;
\* On success addrs is the list the OS hands out; on failure addrs stays
\* uninitialized memory, so that code walking it could see any list.
GetIfAddrs ==
    /\ pc = "start"
    /\ \E code \in {-1, 0} :
        /\ rc' = code
        /\ IF GetifaddrsFailed(code)
           THEN /\ pc' = "done"
                /\ ret' = Some(ifaces)
                /\ UNCHANGED <<addrs, addr>>
           ELSE /\ pc' = "loop"
                /\ addrs' \in SeqsUpTo(RawRecords, MaxRaw)
                /\ addr' = 1
                /\ UNCHANGED ret
    /\ UNCHANGED <<ifaces, next_iface, released, stale_reads, queries>>
    /\ UNCHANGED mac_vars

\* one iteration of while addr.is_not_null() { ... addr = (*addr).ifa_next }
ProcessRecord ==
    /\ pc = "loop"
    /\ is_not_null(addr, addrs)
    /\ ifaces' = Aggregate(ifaces, addrs[addr])
    /\ addr' = addr + 1
    /\ stale_reads' = IF released > 0 THEN stale_reads + 1 ELSE stale_reads
    /\ UNCHANGED <<pc, rc, addrs, next_iface, released, queries, ret>>
    /\ UNCHANGED mac_vars

\* the loop is left; libc::freeifaddrs(addrs)
FreeIfAddrs ==
    /\ pc = "loop"
    /\ ~is_not_null(addr, addrs)
    /\ released' = freeifaddrs(released)
    /\ pc' = "resolve"
    /\ next_iface' = 1
    /\ UNCHANGED <<rc, addrs, addr, ifaces, stale_reads, queries, ret>>
    /\ UNCHANGED mac_vars

\* one iteration of for iface in ifaces.iter_mut() { iface.index = ... }
ResolveIndex ==
    /\ pc = "resolve"
    /\ next_iface <= Len(ifaces)
    /\ \E answer \in if_nametoindex(ifaces[next_iface].name) :
        /\ queries' = Append(queries, <<ifaces[next_iface].name, answer>>)
        /\ ifaces' = [ifaces EXCEPT ![next_iface] = SetIndex(ifaces[next_iface], answer)]
    /\ next_iface' = next_iface + 1
    /\ UNCHANGED <<pc, rc, addrs, addr, released, stale_reads, ret>>
    /\ UNCHANGED mac_vars

\* return ifaces
Return ==
    /\ pc = "resolve"
    /\ next_iface > Len(ifaces)
    /\ ret' = Some(ifaces)
    /\ pc' = "done"
    /\ UNCHANGED <<rc, addrs, addr, ifaces, next_iface, released, stale_reads, queries>>
    /\ UNCHANGED mac_vars

(***************************************************************************)
(* MacAddr: Show (format) and FromStr (parse).                             *)
(***************************************************************************)
\* largest u8
U8Max == 255

HexDigits == <<"0", "1", "2", "3", "4", "5", "6", "7", "8", "9", "a", "b", "c", "d", "e", "f">>
UpperHexDigits == <<"0", "1", "2", "3", "4", "5", "6", "7", "8", "9", "A", "B", "C", "D", "E", "F">>
DecDigits == <<"0", "1", "2", "3", "4", "5", "6", "7", "8", "9">>

\* "{}" of a u8: decimal digits
RECURSIVE Decimal(_)
Decimal(b) ==
    IF b < 10 THEN <<DecDigits[b + 1]>>
    ELSE Append(Decimal(b \div 10), DecDigits[(b % 10) + 1])

\* "{}" in place of "{:x}"
LowerHexAsDecimal(b) == Decimal(b)

\* "{:x}" of a u8: lowercase hexadecimal digits, no padding
RECURSIVE LowerHex(_)
LowerHex(b) ==
    IF b < 16 THEN <<HexDigits[b + 1]>>
    ELSE Append(LowerHex(b \div 16), HexDigits[(b % 16) + 1])

\* write!(fmt, "{:x}:{:x}:{:x}:{:x}:{:x}:{:x}", a, b, c, d, e, f)
fmt(m) ==
    LowerHex(m[1]) \o <<":">> \o LowerHex(m[2]) \o <<":">> \o LowerHex(m[3]) \o <<":">> \o
    LowerHex(m[4]) \o <<":">> \o LowerHex(m[5]) \o <<":">> \o LowerHex(m[6])

\* s.split(':'): the pieces between separators, empty pieces included
RECURSIVE split(_, _)
split(s, sep) ==
    IF \A k \in DOMAIN s : s[k] # sep THEN <<s>>
    ELSE LET k == CHOOSE j \in DOMAIN s : s[j] = sep /\ \A h \in 1..(j - 1) : s[h] # sep
         IN  <<SubSeq(s, 1, k - 1)>> \o split(SubSeq(s, k + 1, Len(s)), sep)

\* char::to_digit(radix): Option of the digit's value
to_digit(c, radix) ==
    LET ds == {d \in 0..(radix - 1) : c = HexDigits[d + 1] \/ c = UpperHexDigits[d + 1]}
    IN  IF ds = {} THEN None ELSE Some(CHOOSE d \in ds : TRUE)

\* the digit loop of from_str_radix::<u8>: overflow of the u8 gives None
RECURSIVE Accumulate(_, _, _, _)
Accumulate(s, k, acc, radix) ==
    IF k > Len(s) THEN Some(acc)
    ELSE LET d == to_digit(s[k], radix)
         IN  IF d = None THEN None
             ELSE IF acc * radix + d[1] > U8Max THEN None
             ELSE Accumulate(s, k + 1, acc * radix + d[1], radix)

\* std::num::from_str_radix::<u8>(s, radix) on a string of digits; the empty
\* string is no number
from_str_radix(s, radix) ==
    IF Len(s) = 0 THEN None ELSE Accumulate(s, 1, 0, radix)

\* the for loop of from_str with its final test, wrong: any count of groups
\* up to six is accepted
RECURSIVE FromStrLoopAtMostSix(_, _, _)
FromStrLoopAtMostSix(splits, i, parts) ==
    IF i >= Len(splits)
    THEN IF i <= 6 THEN Some(parts) ELSE None
    ELSE IF i = 6 THEN None
    ELSE LET piece == splits[i + 1]
             b == from_str_radix(piece, 16)
         IN  IF b # None /\ Len(piece) # 0
             THEN FromStrLoopAtMostSix(splits, i + 1, [parts EXCEPT ![i + 1] = b[1]])
             ELSE None

\* the for loop of from_str from iteration i on, and the test after it
RECURSIVE FromStrLoop(_, _, _)
FromStrLoop(splits, i, parts) ==
    IF i >= Len(splits)
    THEN IF i = 6 THEN Some(parts) ELSE None
    ELSE IF i = 6 THEN None
    ELSE LET piece == splits[i + 1]
             b == from_str_radix(piece, 16)
         IN  IF b # None /\ Len(piece) # 0
             THEN FromStrLoop(splits, i + 1, [parts EXCEPT ![i + 1] = b[1]])
             ELSE None

\* impl FromStr for MacAddr
from_str(s) == FromStrLoop(split(s, ":"), 0, <<0, 0, 0, 0, 0, 0>>)

\* ---- inputs ----
\* groups a text is made of: empty, a padded byte, a mixed-case byte, a
\* number too large for a byte, a group with a character that is no digit
GroupSamples ==
    { <<>>, <<"0", "a">>, <<"f", "F">>, <<"1", "0", "0">>, <<"1", "g">> }

RECURSIVE Join(_)
Join(groups) ==
    IF Len(groups) = 1 THEN groups[1]
    ELSE groups[1] \o <<":">> \o Join(Tail(groups))

\* the texts handed to from_str: one to MaxGroups groups joined by ':'
GroupLists == UNION {[1..k -> GroupSamples] : k \in 1..MaxGroups}

\* MacAddr values: every byte value at every position
MacInputs ==
    { [k \in 1..6 |-> IF k = p THEN v ELSE base[k]] :
        p \in 1..6, v \in 0..U8Max, base \in {Mac1, Mac2, NoMac} }

InitText ==
    /\ mpc = "text"
    /\ \E gs \in GroupLists : text = Join(gs)
    /\ mac_in = None
    /\ parsed = None

InitMacAddr ==
    /\ mpc = "mac"
    /\ mac_in \in {Some(m) : m \in MacInputs}
    /\ text = <<>>
    /\ parsed = None

\* format!("{}", mac)
Show ==
    /\ mpc = "mac"
    /\ text' = fmt(mac_in[1])
    /\ mpc' = "shown"
    /\ UNCHANGED <<mac_in, parsed>>
    /\ UNCHANGED enum_vars

\* from_str::<MacAddr>(text)
FromStr ==
    /\ mpc \in {"text", "shown"}
    /\ parsed' = from_str(text)
    /\ mpc' = IF mpc = "text" THEN "parsed" ELSE "reparsed"
    /\ UNCHANGED <<mac_in, text>>
    /\ UNCHANGED enum_vars

InitMac == InitEnum /\ (InitText \/ InitMacAddr)

NextMac ==
    \/ Show
    \/ FromStr

SpecMac == InitMac /\ [][NextMac]_vars

InitMacIdle ==
    /\ mpc = "idle"
    /\ mac_in = None
    /\ text = <<>>
    /\ parsed = None

Init == InitEnum /\ InitMacIdle

Next ==
    \/ GetIfAddrs
    \/ ProcessRecord
    \/ FreeIfAddrs
    \/ ResolveIndex
    \/ Return

Spec == Init /\ [][Next]_vars

(***************************************************************************)
(* Vocabulary of the properties, defined apart from the operators above.   *)
(***************************************************************************)
RECURSIVE SortedSeq(_)
SortedSeq(S) ==
    IF S = {} THEN <<>>
    ELSE LET m == CHOOSE x \in S : \A y \in S : x <= y
         IN  <<m>> \o SortedSeq(S \ {m})

\* the subsequence of s at the positions P, in order
Pick(s, P) == LET idx == SortedSeq(P) IN [k \in 1..Len(idx) |-> s[idx[k]]]

\* the raw records read so far
Processed == IF addr = 0 THEN <<>> ELSE SubSeq(addrs, 1, addr - 1)

\* the call went past a successful getifaddrs
Acquired == pc # "start" /\ rc = 0

\* the list the caller holds once the call returned, the running aggregate before
Entries == IF ret # None THEN ret[1] ELSE ifaces

\* the raw records read so far that carry the name
RecordsOf(name) == Pick(Processed, {i \in DOMAIN Processed : Processed[i].ifa_name = name})

DecodedMac(rec) == sockaddr_to_network_addr(rec.ifa_addr).mac
DecodedIp(rec) == sockaddr_to_network_addr(rec.ifa_addr).ip

\* the IPs decoded from the records, in arrival order
IpsOf(recs) ==
    LET hits == Pick(recs, {i \in DOMAIN recs : DecodedIp(recs[i]) # None})
    IN  [k \in DOMAIN hits |-> DecodedIp(hits[k])[1]]

\* the hardware addresses decoded from the records, in arrival order
MacsOf(recs) ==
    LET hits == Pick(recs, {i \in DOMAIN recs : DecodedMac(recs[i]) # None})
    IN  [k \in DOMAIN hits |-> DecodedMac(hits[k])[1]]

\* the names of the records in the order each is first seen
FirstSeenNames(recs) ==
    LET firsts == Pick(recs, {i \in DOMAIN recs :
                                \A j \in 1..(i - 1) : recs[j].ifa_name # recs[i].ifa_name})
    IN  [k \in DOMAIN firsts |-> firsts[k].ifa_name]

\* ---- text groups ----
GroupCount(t) == Cardinality({c \in DOMAIN t : t[c] = ":"}) + 1

\* the k-th group of t: the characters with k-1 separators in front of them
GroupAt(t, k) ==
    Pick(t, {q \in DOMAIN t :
                /\ t[q] # ":"
                /\ Cardinality({c \in 1..(q - 1) : t[c] = ":"}) = k - 1})

IsHexChar(c) == \E d \in 1..16 : c = HexDigits[d] \/ c = UpperHexDigits[d]
IsLowerHexChar(c) == \E d \in 1..16 : c = HexDigits[d]
HexCharValue(c) == (CHOOSE d \in 1..16 : c = HexDigits[d] \/ c = UpperHexDigits[d]) - 1

\* the number a string of hexadecimal digits denotes
RECURSIVE HexValue(_)
HexValue(g) ==
    IF g = <<>> THEN 0
    ELSE 16 * HexValue(SubSeq(g, 1, Len(g) - 1)) + HexCharValue(g[Len(g)])

\* a non-empty, valid base-16 unsigned byte
IsHexByte(g) ==
    /\ Len(g) > 0
    /\ \A k \in DOMAIN g : IsHexChar(g[k])
    /\ HexValue(g) <= 255

(***************************************************************************)
(* The properties.                                                         *)
(***************************************************************************)

C2_RoundTrip ==
    /\ mpc = "reparsed" => parsed = mac_in
    /\ mpc \in {"shown", "reparsed"} =>
          /\ GroupCount(text) = 6
          /\ \A k \in 1..6 :
                LET g == GroupAt(text, k)
                IN  /\ Len(g) \in {1, 2}
                    /\ \A j \in DOMAIN g : IsLowerHexChar(g[j])
                    /\ Len(g) = 2 => g[1] # "0"
                    /\ HexValue(g) = mac_in[1][k]

\* a MacAddr with a one-digit byte and a byte with letters was formatted and parsed back
C2_Witness ==
    /\ mpc = "reparsed"
    /\ mac_in # None
    /\ \E k \in 1..6 : mac_in[1][k] < 16
    /\ \E k \in 1..6 : mac_in[1][k] >= 170

\* C3: the aggregate list holds exactly one entry per distinct name of the
\* records read so far, in the order the names were first seen, after every
\* processed record and in the returned list.
C3_OneEntryPerNameFirstSeenOrder ==
    /\ [i \in DOMAIN Entries |-> Entries[i].name] = FirstSeenNames(Processed)
    /\ \A i, j \in DOMAIN Entries : Entries[i].name = Entries[j].name => i = j
    /\ (pc = "done" /\ rc = 0) => (Processed = addrs /\ ret = Some(ifaces))

\* a call returned two entries from three records, the first and third of one name
C3_Witness ==
    /\ pc = "done"
    /\ rc = 0
    /\ Len(addrs) = 3
    /\ addrs[1].ifa_name = addrs[3].ifa_name
    /\ addrs[1].ifa_name # addrs[2].ifa_name
    /\ Len(ret[1]) = 2

\* C4: when every raw record of a name decodes to an IP address, the entry's
\* IP list is those addresses in arrival order, unsorted, duplicates kept.
C4_IpsInArrivalOrder ==
    \A i \in DOMAIN Entries :
        LET recs == RecordsOf(Entries[i].name)
        IN  (\A k \in DOMAIN recs : DecodedIp(recs[k]) # None)
                => Entries[i].ips = Some(IpsOf(recs))

\* two IPs of one name, in descending order and with another name's record
\* between them, were returned in that order
C4_Witness ==
    /\ pc = "done"
    /\ rc = 0
    /\ Len(addrs) = 3
    /\ addrs[1].ifa_name = addrs[3].ifa_name
    /\ addrs[1].ifa_name # addrs[2].ifa_name
    /\ DecodedIp(addrs[1]) = Some("fe80::1")
    /\ DecodedIp(addrs[3]) = Some("10.0.0.1")
    /\ ret[1][1].ips = Some(<<"fe80::1", "10.0.0.1">>)

\* C5: no if_nametoindex query is made before the last raw record has been
\* merged; after the call every aggregated name has been queried exactly
\* once and the entry's index is the answer to that query.
C5_IndexResolvedOnceAfterMerges ==
    /\ queries # <<>> => (pc \in {"resolve", "done"} /\ Processed = addrs)
    /\ (pc = "done" /\ rc = 0) =>
          /\ Len(queries) = Len(ret[1])
          /\ \A i \in DOMAIN ret[1] :
                /\ Cardinality({q \in DOMAIN queries : queries[q][1] = ret[1][i].name}) = 1
                /\ \E q \in DOMAIN queries :
                      /\ queries[q][1] = ret[1][i].name
                      /\ queries[q][2] = ret[1][i].index

\* a name present in two raw records was returned with a non-zero index
C5_Witness ==
    /\ pc = "done"
    /\ rc = 0
    /\ \E i \in DOMAIN ret[1] :
          /\ ret[1][i].index # 0
          /\ Len(RecordsOf(ret[1][i].name)) >= 2

\* C6: when the OS record list was acquired it is released exactly once
\* before the call returns, never more than once, and no raw record is read
\* after the release.
C6_ReleasedExactlyOnce ==
    /\ released <= 1
    /\ stale_reads = 0
    /\ (pc = "done" /\ rc = 0) => released = 1
    /\ released = 1 => Acquired

\* a call that read records returned with the list released
C6_Witness ==
    /\ pc = "done"
    /\ rc = 0
    /\ Len(addrs) >= 2
    /\ released = 1

\* C7: when getifaddrs reports failure the call returns the empty list,
\* having read no raw record and made no if_nametoindex query.
C7_FailSoft ==
    rc # 0 =>
        /\ pc = "done"
        /\ ret = Some(<<>>)
        /\ addr = 0
        /\ ifaces = <<>>
        /\ queries = <<>>

\* a call in which getifaddrs failed has returned
C7_Witness ==
    /\ pc = "done"
    /\ rc # 0
    /\ ret # None

\* C8: an entry's hardware address is absent iff no raw record of its name
\* decoded to one, and is otherwise that of the last such record.
C8_MacLastWriteWins ==
    \A i \in DOMAIN Entries :
        LET macs == MacsOf(RecordsOf(Entries[i].name))
        IN  Entries[i].mac = IF macs = <<>> THEN None ELSE Some(macs[Len(macs)])

\* two different hardware addresses then a record without one, all of one name
C8_Witness ==
    /\ pc = "done"
    /\ rc = 0
    /\ Len(addrs) = 3
    /\ addrs[1].ifa_name = addrs[2].ifa_name
    /\ addrs[2].ifa_name = addrs[3].ifa_name
    /\ DecodedMac(addrs[1]) = Some(Mac1)
    /\ DecodedMac(addrs[2]) = Some(Mac2)
    /\ DecodedMac(addrs[3]) = None
    /\ ret[1][1].mac = Some(Mac2)

\* C9: merging into an aggregate a record of the same name whose flags and
\* hardware address equal the aggregate's, once or twice, leaves the
\* aggregate's flags and hardware address as they were.
C9_MergeIdempotent ==
    \A i \in DOMAIN Entries : \A sa \in SockAddrs :
        LET old == Entries[i]
            rec == [ifa_name |-> old.name, ifa_addr |-> sa, ifa_flags |-> old.flags]
            new == [NewInterface(rec) EXCEPT !.mac = old.mac]
            once == merge(old, new)
            twice == merge(once, new)
        IN  /\ once.flags = old.flags
            /\ once.mac = old.mac
            /\ twice.flags = old.flags
            /\ twice.mac = old.mac

\* the same link-layer record was read three times: merged twice into its entry
C9_Witness ==
    /\ pc = "loop"
    /\ addr = 4
    /\ addrs[1] = addrs[2]
    /\ addrs[2] = addrs[3]
    /\ DecodedMac(addrs[1]) # None
    /\ ifaces[1].flags = addrs[1].ifa_flags
    /\ ifaces[1].mac = DecodedMac(addrs[1])

\* C10: whether an entry has an IP list is fixed by the first raw record of
\* its name: no IP there, no list and later IPs are dropped; an IP there,
\* the list is every decoded IP of the name in arrival order.
C10_IpListFixedByFirstRecord ==
    \A i \in DOMAIN Entries :
        LET recs == RecordsOf(Entries[i].name)
        IN  /\ Len(recs) >= 1
            /\ Entries[i].ips = IF DecodedIp(recs[1]) = None THEN None
                                ELSE Some(IpsOf(recs))

\* a link-layer record came first, an IP of the same name later, and the
\* returned entry has no IP list
C10_Witness ==
    /\ pc = "done"
    /\ rc = 0
    /\ Len(addrs) >= 2
    /\ addrs[1].ifa_name = addrs[2].ifa_name
    /\ DecodedMac(addrs[1]) # None
    /\ DecodedIp(addrs[2]) # None
    /\ ret[1][1].ips = None

====
